---- MODULE Spec2Model ----
(***************************************************************************)
(* The baseline / visual-regression tools of the Symbiotic website tool    *)
(* server (v5.0), their browser handling, and the command-line front ends  *)
(* of both servers.                                                        *)
(*                                                                         *)
(* Units.  A percentage is kept in hundredths of a percent ("centi"), so   *)
(* threshold 0.1 is 10 and diffPercentage 66.67 is 6667.  The value the    *)
(* code computes before rounding is kept exactly, as the fraction          *)
(* diffNum / diffDen, so the verdict and the rounded report can differ.    *)
(* The clock counts ticks of 500 ms; timestamp() shows whole seconds.       *)
(***************************************************************************)
EXTENDS Integers, Sequences, FiniteSets, TLC

VARIABLES
    fs,            \* the disk: path |-> bytes of the file at that path
    clock,         \* wall clock, in ticks of 500 ms
    browsersOpen,  \* browsers launched and not yet closed
    last,          \* the most recent tool call: inputs, start state, outcome
                   \* (in the site's page script: the DOM of the atom animation)
    proc,          \* the most recent CLI process: argv, output, how it ended
    runs           \* what runs at the same time: visual_regression processes,
                   \* passes of watch mode, pending timers of the page script

vars == <<fs, clock, browsersOpen, last, proc, runs>>

----------------------------------------------------------------------------
\* Bounds of the model

MaxLen == 4        \* longest screenshot, in bytes
MaxClock == 8      \* no page is loaded that would be ready after this tick
MaxTick == 2       \* last tick of the clock while processes run side by side

\* Program constants

SAMPLE_CAP == 10000          \* Math.min(..., 10000)
SAMPLE_STRIDE == 4           \* i += 4, sampleSize / 4
DEFAULT_THRESHOLD == 10      \* threshold = 0.1, in hundredths of a percent
TICKS_PER_SECOND == 2        \* timestamp() keeps the seconds, .slice(0, 19)
NETWORK_IDLE == 1            \* waitUntil: 'networkidle': 500 ms without traffic
SETTLE_TIME == 3             \* options.settleTime || 1500

----------------------------------------------------------------------------
\* Paths

OUTPUT_DIR == "/Users/yuripetrinim5/Downloads"

join(dir, file) == dir \o "/" \o file

REPORTS_DIR == join(OUTPUT_DIR, "symbiotic-reports")

BASELINES_DIR == join(REPORTS_DIR, "baselines")

DIFFS_DIR == join(REPORTS_DIR, "diffs")

\* new Date().toISOString().replace(/[:.]/g, '-').slice(0, 19): the
\* milliseconds are cut off, so the text identifies the second only.
timestamp(now) == ToString(now \div TICKS_PER_SECOND)

baselinePath(name, viewport) ==
    join(BASELINES_DIR, "baseline_" \o name \o "_" \o viewport \o ".png")

\* (the screenshot of the run written over the baseline file)
currentOverBaseline(name, viewport, now) ==
    join(BASELINES_DIR, "baseline_" \o name \o "_" \o viewport \o ".png")

regressionCurrentPath(name, viewport, now) ==
    join(DIFFS_DIR, "current_" \o name \o "_" \o viewport \o "_" \o timestamp(now) \o ".png")

\* The same file as saveBaseline, updateBaseline and compareToBaseline name it
saveBaselinePath(name, viewport) ==
    join(BASELINES_DIR, "baseline_" \o name \o "_" \o viewport \o ".png")

updateBaselinePath(name, viewport) ==
    join(BASELINES_DIR, "baseline_" \o name \o "_" \o viewport \o ".png")

compareBaselinePath(name, viewport) ==
    join(BASELINES_DIR, "baseline_" \o name \o "_" \o viewport \o ".png")

regressionDiffPath(name, viewport, now) ==
    join(DIFFS_DIR, "diff_" \o name \o "_" \o viewport \o "_" \o timestamp(now) \o ".png")

compareCurrentPath(name, viewport, now) ==
    join(REPORTS_DIR, "current_" \o name \o "_" \o viewport \o "_" \o timestamp(now) \o ".png")

----------------------------------------------------------------------------
\* The file system calls the tools use

\* (the test applied to the file name without its directory)
existsSyncBasename(disk, path) ==
    SubSeq(path, Len(BASELINES_DIR) + 2, Len(path)) \in DOMAIN disk

existsSync(disk, path) == path \in DOMAIN disk

readFileSync(disk, path) == disk[path]

\* (the data argument left out: the file is created without the bytes)
writeFileSyncPathOnly(disk, path, bytes) ==
    [p \in DOMAIN disk \cup {path} |-> IF p = path THEN <<>> ELSE disk[p]]

writeFileSync(disk, path, bytes) ==
    [p \in DOMAIN disk \cup {path} |-> IF p = path THEN bytes ELSE disk[p]]

\* (a file that exists is kept)
screenshotKeepExisting(disk, path, bytes) ==
    [p \in DOMAIN disk \cup {path} |->
        IF p = path /\ p \notin DOMAIN disk THEN bytes ELSE disk[p]]

\* page.screenshot({ path }): the file at path holds the rendered bytes
pageScreenshot(disk, path, bytes) ==
    [p \in DOMAIN disk \cup {path} |-> IF p = path THEN bytes ELSE disk[p]]

\* (the file is left where it is)
unlinkSyncNothing(disk, path) == disk

unlinkSync(disk, path) == [p \in DOMAIN disk \ {path} |-> disk[p]]

\* The names of the files directly under dir
readdirSync(disk, dir) ==
    LET pre == dir \o "/"
        under == {p \in DOMAIN disk :
                    /\ Len(p) > Len(pre)
                    /\ SubSeq(p, 1, Len(pre)) = pre
                    /\ \A i \in Len(pre) + 1 .. Len(p) : SubSeq(p, i, i) # "/"}
    IN {SubSeq(p, Len(pre) + 1, Len(p)) : p \in under}

\* String.prototype.endsWith and String.prototype.replace(pattern, '') with a
\* string pattern: only the first occurrence is removed.
endsWith(s, suffix) ==
    /\ Len(s) >= Len(suffix)
    /\ SubSeq(s, Len(s) - Len(suffix) + 1, Len(s)) = suffix

removeFirst(s, pat) ==
    LET at == {i \in 1..(Len(s) - Len(pat) + 1) : SubSeq(s, i, i + Len(pat) - 1) = pat}
    IN IF at = {} THEN s
       ELSE LET i == CHOOSE j \in at : \A k \in at : j <= k
            IN SubSeq(s, 1, i - 1) \o SubSeq(s, i + Len(pat), Len(s))

----------------------------------------------------------------------------
\* Screenshots.  A screenshot is a PNG file: a sequence of bytes that starts
\* with the PNG signature (first byte 137) and goes on with image data.  The
\* pages here render to a uniform fill, so the data bytes of one file agree.

Fills == {0, 1}

Png(n, fill) == [i \in 1..n |-> IF i = 1 THEN 137 ELSE fill]

Snapshots == {Png(n, f) : n \in 1..MaxLen, f \in Fills}

\* createHash('md5').update(buffer).digest('hex'): a digest of all the bytes
\* in order, of fixed width.
RECURSIVE md5(_)
md5(bytes) ==
    IF bytes = <<>> THEN 7
    ELSE (md5(SubSeq(bytes, 1, Len(bytes) - 1)) * 256 + bytes[Len(bytes)] + 1) % 8388593

Min(a, b) == IF a <= b THEN a ELSE b

Abs(a) == IF a < 0 THEN 0 - a ELSE a

\* Math.round(num / den) for num >= 0, den > 0
RoundDiv(num, den) == (2 * num + den) \div (2 * den)

\* (x).toFixed(2) of a non-negative value given in hundredths
toFixed2(centi) ==
    ToString(centi \div 100) \o "." \o
    (IF centi % 100 < 10 THEN "0" ELSE "") \o ToString(centi % 100)

----------------------------------------------------------------------------
\* Tool arguments.  An argument that is left out is <<>>, one that is given
\* is <<value>>; a destructuring default applies to the ones left out.

Default(arg, dflt) == IF arg = <<>> THEN dflt ELSE arg[1]

NameArgs == {<<>>, <<"home">>}

ViewportArgs == {<<>>, <<"mobile">>}

ThresholdArgs == {<<>>, <<13333>>}

NoArgs == [name |-> <<>>, viewport |-> <<>>, threshold |-> <<>>,
           browsers |-> <<>>, selector |-> <<>>]

RegressionArgs ==
    {[NoArgs EXCEPT !.name = n, !.viewport = v, !.threshold = t] :
        n \in NameArgs, v \in ViewportArgs, t \in ThresholdArgs}

BaselineArgs ==
    {[NoArgs EXCEPT !.name = n, !.viewport = v] : n \in NameArgs, v \in ViewportArgs}

\* What the world outside the program decides during one tool call: the
\* bytes the page renders to, the step that fails (if any), and the values
\* Math.random() returns, each as the numerator of a fraction of MaxLen.
Faults == {"none", "launch", "goto", "screenshot", "fs", "screenshot2"}

MaxIters == (MaxLen + SAMPLE_STRIDE - 1) \div SAMPLE_STRIDE

NoRandom == [n \in 1..MaxIters |-> 0]

NoFaults == <<"none", "none", "none">>

\* A step that fails before the screenshot is written renders nothing the
\* program sees, and Math.random() is called only by a comparison, which no
\* failed step reaches.
NothingRendered(env) ==
    env.fault \in {"launch", "goto", "screenshot"} => env.cap = Png(1, 0)

Randoms == [1..MaxIters -> 0..(MaxLen - 1)]

RegressionEnvs ==
    {env \in [cap : Snapshots, fault : Faults, random : {NoRandom}, faults : {NoFaults}] :
        NothingRendered(env)}

CaptureEnvs ==
    {env \in [cap : Snapshots, fault : {"none", "launch", "goto", "screenshot"},
              random : {NoRandom}, faults : {NoFaults}] : NothingRendered(env)}

----------------------------------------------------------------------------
\* How a tool function ends: it returns ret or throws; disk and now are the
\* disk and the clock it leaves; captured holds the bytes it screenshotted,
\* logged the lines it wrote with console.log on the way.

Returned(disk, now, captured, ret) ==
    [threw |-> FALSE, ret |-> ret, disk |-> disk, now |-> now,
     captured |-> captured, launched |-> 0, closed |-> 0, logged |-> <<>>]

Thrown(disk, now, captured, message) ==
    [threw |-> TRUE, ret |-> [message |-> message], disk |-> disk, now |-> now,
     captured |-> captured, launched |-> 0, closed |-> 0, logged |-> <<>>]

\* finally { await browser.close(); }: runs however the try block ended
CloseOnSuccessOnly(threw) == IF threw THEN 0 ELSE 1

browserClose(threw) == 1

\* const browser = await getBrowser(); try { body } finally { close }
withBrowser(env, disk, now, body) ==
    IF env.fault = "launch" THEN Thrown(disk, now, <<>>, "browserType.launch: failed")
    ELSE [body EXCEPT !.launched = 1, !.closed = browserClose(body.threw)]

\* getPage: newPage, goto(waitUntil networkidle, timeout 30000), then
\* waitForTimeout(1500): when it returns, the clock has moved on.
getPageFails(env) == env.fault = "goto"

getPageDone(now) == now + NETWORK_IDLE + SETTLE_TIME

----------------------------------------------------------------------------
\* visualRegression

\* for (let i = 0; i < sampleSize; i += 4) {
\*   const idx = Math.floor(Math.random() * Math.min(b.length, c.length));
\*   if (b[idx] !== c[idx]) pixelDiffs++; }
\* n counts the iterations; random[n] / MaxLen is what Math.random() returns.
\* (the index drawn over the longer buffer: past the end of the shorter one
\* the byte read is undefined)
RECURSIVE sampleLoopOverLonger(_, _, _, _, _, _)
sampleLoopOverLonger(i, n, sampleSize, baselineBuffer, currentBuffer, random) ==
    IF i < sampleSize
    THEN LET longer == IF Len(baselineBuffer) >= Len(currentBuffer)
                       THEN Len(baselineBuffer) ELSE Len(currentBuffer)
             idx == (random[n] * longer) \div MaxLen
             at(buffer) == IF idx + 1 <= Len(buffer) THEN buffer[idx + 1] ELSE 256
         IN (IF at(baselineBuffer) # at(currentBuffer) THEN 1 ELSE 0)
            + sampleLoopOverLonger(i + SAMPLE_STRIDE, n + 1, sampleSize,
                                   baselineBuffer, currentBuffer, random)
    ELSE 0

RECURSIVE sampleLoop(_, _, _, _, _, _)
sampleLoop(i, n, sampleSize, baselineBuffer, currentBuffer, random) ==
    IF i < sampleSize
    THEN LET idx == (random[n] * Min(Len(baselineBuffer), Len(currentBuffer))) \div MaxLen
         IN (IF baselineBuffer[idx + 1] # currentBuffer[idx + 1] THEN 1 ELSE 0)
            + sampleLoop(i + SAMPLE_STRIDE, n + 1, sampleSize,
                         baselineBuffer, currentBuffer, random)
    ELSE 0

\* const passed = diffPercentage <= threshold, with
\* diffPercentage = (pixelDiffs / (sampleSize / 4)) * 100 = diffNum / diffDen
\* and the threshold in hundredths
passed(diffNum, diffDen, threshold) == diffNum * 100 <= threshold * diffDen

\* sizeDiff = Math.abs(b.length - c.length) / b.length, reported as
\* `${(sizeDiff * 100).toFixed(2)}%`
sizeDiffText(baselineLength, currentLength) ==
    toFixed2(RoundDiv(Abs(baselineLength - currentLength) * 10000, baselineLength)) \o "%"

\* The comparison of lines 2096-2121, once both buffers are read
compareBuffers(name, viewport, threshold, baselineBuffer, currentBuffer, paths, random) ==
    LET sampleSize  == Min(Min(Len(baselineBuffer), Len(currentBuffer)), SAMPLE_CAP)
        pixelDiffs  == sampleLoop(0, 1, sampleSize, baselineBuffer, currentBuffer, random)
        diffNum     == pixelDiffs * SAMPLE_STRIDE * 100
        diffDen     == sampleSize
    IN [success        |-> TRUE,
        status         |-> IF passed(diffNum, diffDen, threshold) THEN "passed" ELSE "failed",
        diffPercentage |-> RoundDiv(diffNum * 100, diffDen),
        threshold      |-> threshold,
        baseline       |-> paths.baseline,
        current        |-> paths.current,
        diff           |-> paths.diff,
        sizeDiff       |-> sizeDiffText(Len(baselineBuffer), Len(currentBuffer))]

\* The digests decide "identical"
DigestOfLength(bytes) == Len(bytes)

digest(bytes) == md5(bytes)

visualRegressionTry(disk, now, name, viewport, threshold, env) ==
    LET baselinePath_ == baselinePath(name, viewport) IN
    IF getPageFails(env) THEN Thrown(disk, now, <<>>, "page.goto: failed")
    ELSE
    LET now1 == getPageDone(now)
        currentPath == regressionCurrentPath(name, viewport, now1)
    IN
    IF env.fault = "screenshot" THEN Thrown(disk, now1, <<>>, "page.screenshot: failed")
    ELSE
    LET disk1 == pageScreenshot(disk, currentPath, env.cap)
        shot  == <<env.cap>>
    IN
    IF ~existsSync(disk1, baselinePath_)
    THEN IF env.fault = "fs" THEN Thrown(disk1, now1, shot, "EACCES")
         ELSE Returned(writeFileSync(disk1, baselinePath_, readFileSync(disk1, currentPath)),
                       now1, shot,
                       [success  |-> TRUE,
                        status   |-> "baseline_created",
                        baseline |-> baselinePath_,
                        message  |-> "No baseline existed. Current screenshot saved as baseline."])
    ELSE
    IF env.fault = "fs" THEN Thrown(disk1, now1, shot, "EACCES")
    ELSE
    LET baselineBuffer == readFileSync(disk1, baselinePath_)
        currentBuffer  == readFileSync(disk1, currentPath)
    IN
    IF digest(baselineBuffer) = digest(currentBuffer)
    THEN Returned(unlinkSync(disk1, currentPath), now1, shot,
                  [success |-> TRUE, status |-> "identical",
                   message |-> "Screenshots are identical"])
    ELSE
    IF env.fault = "screenshot2" THEN Thrown(disk1, now1, shot, "page.screenshot: failed")
    ELSE Returned(disk1, now1, shot,
                  compareBuffers(name, viewport, threshold, baselineBuffer, currentBuffer,
                                 [baseline |-> baselinePath_, current |-> currentPath,
                                  diff |-> regressionDiffPath(name, viewport, now1)],
                                 env.random))

visualRegression(disk, now, args, env) ==
    LET name      == Default(args.name, "default")
        viewport  == Default(args.viewport, "desktop")
        threshold == Default(args.threshold, DEFAULT_THRESHOLD)
    IN withBrowser(env, disk, now,
                   visualRegressionTry(disk, now, name, viewport, threshold, env))

----------------------------------------------------------------------------
\* saveBaseline, updateBaseline, compareToBaseline, listBaselines

\* (the file at path opened and its header written before the page is loaded)
screenshotToOpenFirst(disk, now, path, env, ret) ==
    LET opened == writeFileSync(disk, path, Png(1, 0))
    IN IF getPageFails(env) THEN Thrown(opened, now, <<>>, "page.goto: failed")
       ELSE IF env.fault = "screenshot"
            THEN Thrown(opened, getPageDone(now), <<>>, "page.screenshot: failed")
            ELSE Returned(pageScreenshot(opened, path, env.cap), getPageDone(now),
                          <<env.cap>>, ret)

\* page.screenshot({ path, fullPage: true }) inside try, after getPage
screenshotTo(disk, now, path, env, ret) ==
    IF getPageFails(env) THEN Thrown(disk, now, <<>>, "page.goto: failed")
    ELSE IF env.fault = "screenshot"
         THEN Thrown(disk, getPageDone(now), <<>>, "page.screenshot: failed")
         ELSE Returned(pageScreenshot(disk, path, env.cap), getPageDone(now), <<env.cap>>, ret)

saveBaseline(disk, now, args, env) ==
    LET name     == Default(args.name, "default")
        viewport == Default(args.viewport, "desktop")
        filepath == saveBaselinePath(name, viewport)
    IN withBrowser(env, disk, now,
                   screenshotTo(disk, now, filepath, env,
                                [success |-> TRUE, baseline |-> filepath,
                                 name |-> name, viewport |-> viewport]))

updateBaseline(disk, now, args, env) ==
    LET name     == Default(args.name, "default")
        viewport == Default(args.viewport, "desktop")
        baselinePath_ == updateBaselinePath(name, viewport)
    IN withBrowser(env, disk, now,
                   screenshotTo(disk, now, baselinePath_, env,
                                [success |-> TRUE, baseline |-> baselinePath_,
                                 message |-> "Baseline updated"]))

\* (the browser launched and the page captured before the baseline is
\* looked for, as the other tools do)
compareToBaselineLaunchFirst(disk, now, args, env) ==
    LET name     == Default(args.name, "default")
        viewport == Default(args.viewport, "desktop")
        baselinePath_ == compareBaselinePath(name, viewport)
        currentPath   == compareCurrentPath(name, viewport, getPageDone(now))
        notFound == [success |-> FALSE,
                     error |-> "Baseline not found: " \o name \o ". Run save_baseline first."]
    IN withBrowser(env, disk, now,
           screenshotTo(disk, now, currentPath, env,
                        IF ~existsSync(disk, baselinePath_) THEN notFound
                        ELSE [success  |-> TRUE,
                              baseline |-> baselinePath_,
                              current  |-> currentPath,
                              message  |-> "Compare images manually or use image diff tool"]))

compareToBaseline(disk, now, args, env) ==
    LET name     == Default(args.name, "default")
        viewport == Default(args.viewport, "desktop")
        baselinePath_ == compareBaselinePath(name, viewport)
    IN IF ~existsSync(disk, baselinePath_)
       THEN Returned(disk, now, <<>>,
                     [success |-> FALSE,
                      error |-> "Baseline not found: " \o name \o ". Run save_baseline first."])
       ELSE withBrowser(env, disk, now,
                screenshotTo(disk, now, compareCurrentPath(name, viewport, getPageDone(now)),
                             env,
                             [success  |-> TRUE,
                              baseline |-> baselinePath_,
                              current  |-> compareCurrentPath(name, viewport, getPageDone(now)),
                              message  |-> "Compare images manually or use image diff tool"]))

listBaselines(disk, now) ==
    LET files == {f \in readdirSync(disk, BASELINES_DIR) : endsWith(f, ".png")}
    IN Returned(disk, now, <<>>,
                [success   |-> TRUE,
                 baselines |-> {[name |-> removeFirst(removeFirst(f, "baseline_"), ".png"),
                                 path |-> join(BASELINES_DIR, f)] : f \in files},
                 count     |-> Cardinality(files)])

----------------------------------------------------------------------------
\* quickReport and testCrossBrowser

quickReport(disk, now, args, env) ==
    LET viewport == Default(args.viewport, "desktop")
        filepath == join(REPORTS_DIR,
                         "quick_report_" \o viewport \o "_" \o timestamp(getPageDone(now)) \o ".png")
    IN withBrowser(env, disk, now,
                   screenshotTo(disk, now, filepath, env,
                                [success |-> TRUE, report |-> [screenshot |-> filepath]]))

BROWSERS == {"chromium", "firefox", "webkit"}

DefaultBrowsers == <<"chromium", "firefox", "webkit">>

BrowsersArgs == {<<>>, <<(<<"firefox", "netscape">>)>>}

\* What fails for the browser at each place of the list; the engines render
\* the page to the same bytes
CrossBrowserEnvs ==
    [cap : {Png(MaxLen, 1)}, fault : {"none"}, random : {NoRandom},
     faults : [1..Len(DefaultBrowsers) -> {"none", "launch", "goto"}]]

\* for (const browserName of browsers) { ... }: st is what the iterations so
\* far have left: the disk, the clock, results, browsers launched and closed.
RECURSIVE crossBrowserLoop(_, _, _, _, _)
crossBrowserLoop(browsers, i, st, faults, cap) ==
    IF i > Len(browsers)
    THEN [Returned(st.disk, st.now, <<>>, [success |-> TRUE, results |-> st.results])
            EXCEPT !.launched = st.launched, !.closed = st.closed]
    ELSE
    LET browserName == browsers[i] IN
    IF browserName \notin BROWSERS
    THEN crossBrowserLoop(browsers, i + 1, st, faults, cap)
    ELSE
    IF faults[i] = "launch"
    THEN [Thrown(st.disk, st.now, <<>>, "browserType.launch: failed")
            EXCEPT !.launched = st.launched, !.closed = st.closed]
    ELSE
    LET caught   == faults[i] = "goto"
        now1     == IF caught THEN st.now ELSE st.now + NETWORK_IDLE
        filepath == join(REPORTS_DIR,
                         "crossbrowser_" \o browserName \o "_" \o timestamp(now1) \o ".png")
        result   == IF caught
                    THEN [status |-> "failed", error |-> "page.goto: failed"]
                    ELSE [status |-> "passed", screenshot |-> filepath]
    IN crossBrowserLoop(browsers, i + 1,
           [disk     |-> IF caught THEN st.disk ELSE pageScreenshot(st.disk, filepath, cap),
            now      |-> now1,
            results  |-> [b \in DOMAIN st.results \cup {browserName} |->
                            IF b = browserName THEN result ELSE st.results[b]],
            launched |-> st.launched + 1,
            closed   |-> st.closed + browserClose(caught)],
           faults, cap)

testCrossBrowser(disk, now, args, env) ==
    crossBrowserLoop(Default(args.browsers, DefaultBrowsers), 1,
                     [disk |-> disk, now |-> now, results |-> <<>>,
                      launched |-> 0, closed |-> 0],
                     env.faults, env.cap)

----------------------------------------------------------------------------
\* startWatchMode, the tool table and handleTool (server v5.0)

TextLine == [kind |-> "text"]

JsonObject(value) == [kind |-> "json", value |-> value]

Lines(n) == [i \in 1..n |-> TextLine]

\* Four lines of banner, then runTests() over tests = ['quick_report']: a
\* line, the test, a line with its result; then the watcher is registered.
startWatchMode(disk, now, args, env) ==
    LET test == quickReport(disk, now, NoArgs, env)
    IN IF test.threw
       THEN [test EXCEPT !.logged = Lines(4) \o Lines(1)]
       ELSE [test EXCEPT !.logged = Lines(4) \o Lines(1) \o Lines(1),
                         !.captured = <<>>,
                         !.ret = [success |-> TRUE, message |-> "Watch mode started",
                                  pid |-> "process.pid"]]

tools ==
    {"save_baseline", "compare_baseline", "visual_regression", "update_baseline",
     "list_baselines", "quick_report", "test_browsers", "watch"}

toolFn(name, disk, now, args, env) ==
    CASE name = "save_baseline"     -> saveBaseline(disk, now, args, env)
      [] name = "compare_baseline"  -> compareToBaseline(disk, now, args, env)
      [] name = "visual_regression" -> visualRegression(disk, now, args, env)
      [] name = "update_baseline"   -> updateBaseline(disk, now, args, env)
      [] name = "list_baselines"    -> listBaselines(disk, now)
      [] name = "quick_report"      -> quickReport(disk, now, args, env)
      [] name = "test_browsers"     -> testCrossBrowser(disk, now, args, env)
      [] name = "watch"             -> startWatchMode(disk, now, args, env)

\* catch (err) { return { error: err.message, stack: ... }; }
catchInHandleTool(out) ==
    IF out.threw
    THEN [out EXCEPT !.threw = FALSE,
                     !.ret = [error |-> out.ret.message, stack |-> "err.stack"]]
    ELSE out

\* tools is an object literal: tools[name] is also found, along the prototype
\* chain, for the property names of Object.prototype
ObjectPrototype == {"constructor", "toString", "hasOwnProperty"}

\* tools[name]: the registered entry, an inherited property, or undefined
toolsLookup(name) ==
    IF name \in tools THEN "entry"
    ELSE IF name \in ObjectPrototype THEN "inherited" ELSE "undefined"

\* if (!tools[name]) return { error, available };
\* try { return await tools[name].fn(args) } catch (err) { ... }
handleTool(name, disk, now, args, env) ==
    CASE toolsLookup(name) = "undefined" ->
            Returned(disk, now, <<>>,
                     [error |-> "Unknown tool: " \o name, available |-> tools])
      [] toolsLookup(name) = "inherited" ->
            catchInHandleTool(Thrown(disk, now, <<>>, "tools[name].fn is not a function"))
      [] OTHER -> catchInHandleTool(toolFn(name, disk, now, args, env))

----------------------------------------------------------------------------
\* The first server: extractText and its handleTool, which has no try/catch

\* What document.querySelector finds in the site's page
PageSelectors == {"body", ".hero"}

extractText(disk, now, args, env) ==
    withBrowser(env, disk, now,
        IF getPageFails(env) THEN Thrown(disk, now, <<>>, "page.goto: failed")
        ELSE IF args.selector # <<>> /\ args.selector[1] \notin PageSelectors
             THEN Returned(disk, getPageDone(now), <<>>,
                           [success |-> FALSE,
                            error |-> "Element not found: " \o args.selector[1]])
             ELSE Returned(disk, getPageDone(now), <<>>,
                           [success |-> TRUE, text |-> "innerText",
                            selector |-> Default(args.selector, "body")]))

\* The tools the first server advertises: the keys of its tools table
toolsV1 ==
    {"screenshot_hero", "screenshot_full", "screenshot_element", "check_layout",
     "check_mobile", "check_accessibility", "validate_links", "validate_images",
     "extract_text", "get_element_bounds", "compare_elements"}

\* screenshotHero, screenshotFull: a file named after the kind, the viewport
\* and Date.now()
screenshotV1(kind, disk, now, args, env) ==
    LET viewport == Default(args.viewport, "desktop")
        filepath == join(OUTPUT_DIR, "symbiotic_" \o kind \o "_" \o viewport \o "_"
                                         \o ToString(getPageDone(now)) \o ".png")
    IN withBrowser(env, disk, now,
           screenshotTo(disk, now, filepath, env,
                        [success |-> TRUE, file |-> filepath, viewport |-> viewport]))

\* screenshotElement, getElementBounds, compareElements: the element is
\* looked for in the page; screenshotElement writes a file when it is found
elementToolV1(writes, disk, now, args, env) ==
    LET filepath == join(OUTPUT_DIR, "symbiotic_element_" \o ToString(getPageDone(now)) \o ".png")
        selector == Default(args.selector, "undefined")
    IN withBrowser(env, disk, now,
           IF getPageFails(env) THEN Thrown(disk, now, <<>>, "page.goto: failed")
           ELSE IF selector \notin PageSelectors
                THEN Returned(disk, getPageDone(now), <<>>,
                              [success |-> FALSE, error |-> "Element not found: " \o selector])
                ELSE IF writes
                     THEN Returned(pageScreenshot(disk, filepath, env.cap), getPageDone(now),
                                   <<env.cap>>,
                                   [success |-> TRUE, file |-> filepath, selector |-> selector])
                     ELSE Returned(disk, getPageDone(now), <<>>,
                                   [success |-> TRUE, selector |-> selector]))

\* checkLayout, checkMobile: page.evaluate over the loaded page
evaluateV1(disk, now, args, env) ==
    withBrowser(env, disk, now,
        IF getPageFails(env) THEN Thrown(disk, now, <<>>, "page.goto: failed")
        ELSE Returned(disk, getPageDone(now), <<>>, [success |-> TRUE, count |-> 0]))

\* switch (name) { case ...: return await ...; default: return { error } }
handleToolV1(name, disk, now, args, env) ==
    CASE name = "screenshot_hero"    -> screenshotV1("hero", disk, now, args, env)
      [] name = "screenshot_full"    -> screenshotV1("full", disk, now, args, env)
      [] name = "screenshot_element" -> elementToolV1(TRUE, disk, now, args, env)
      [] name = "check_layout"       -> evaluateV1(disk, now, args, env)
      [] name = "check_mobile"       -> evaluateV1(disk, now, args, env)
      [] name = "get_element_bounds" -> elementToolV1(FALSE, disk, now, args, env)
      [] name = "compare_elements"   -> elementToolV1(FALSE, disk, now, args, env)
      [] name = "extract_text"       -> extractText(disk, now, args, env)
      [] OTHER -> Returned(disk, now, <<>>, [error |-> "Unknown tool: " \o name])

----------------------------------------------------------------------------
\* The command lines.  argv holds process.argv from index 2 on.

\* JSON.parse of the texts given here; ok is FALSE where it throws SyntaxError
JSON_parse(text) ==
    CASE text = "{}" -> [ok |-> TRUE, value |-> NoArgs]
      [] text = "{\"name\":\"home\",\"viewport\":\"mobile\"}"
           -> [ok |-> TRUE,
               value |-> [NoArgs EXCEPT !.name = <<"home">>, !.viewport = <<"mobile">>]]
      [] text = "{\"selector\":\"#missing\"}"
           -> [ok |-> TRUE, value |-> [NoArgs EXCEPT !.selector = <<"#missing">>]]
      [] OTHER -> [ok |-> FALSE, value |-> NoArgs]

JsonTexts ==
    {"", "{}", "{\"name\":\"home\",\"viewport\":\"mobile\"}",
     "{\"selector\":\"#missing\"}", "{\"name\":"}

Commands == tools \cup {"help", "", "frobnicate", "constructor"}

CommandsV1 == toolsV1 \cup {"", "frobnicate"}

ArgvOver(commands) ==
    {<<>>} \cup {<<c>> : c \in commands} \cup {<<c, t>> : c \in commands, t \in JsonTexts}

\* process.argv[i]: <<>> when it is undefined
Argv(argv, i) == IF Len(argv) >= i - 1 THEN <<argv[i - 1]>> ELSE <<>>

Truthy(arg) == arg # <<>> /\ arg[1] # ""

\* const args = process.argv[3] ? JSON.parse(process.argv[3]) : {};
parseArgs(argv) ==
    IF Truthy(Argv(argv, 3)) THEN JSON_parse(Argv(argv, 3)[1])
    ELSE [ok |-> TRUE, value |-> NoArgs]

\* The usage text: 3 lines of heading, a line or more for each of the 31
\* categories, 13 lines of examples and directories
HelpLines == Lines(3) \o Lines(31) \o Lines(13)

\* handleTool(command, args).then(result => console.log(JSON.stringify(...)))
\*                          .catch(err => console.error('Error:', err))
printResult(out) ==
    IF out.threw
    THEN [stdout |-> out.logged, stderr |-> Lines(1), exit |-> "clean"]
    ELSE [stdout |-> out.logged \o <<JsonObject(out.ret)>>, stderr |-> <<>>, exit |-> "clean"]

Process(server, argv, io) ==
    [server |-> server, argv |-> argv,
     stdout |-> io.stdout, stderr |-> io.stderr, exit |-> io.exit]

\* An exception nothing catches: node prints it to stderr and exits with 1
Uncaught == [stdout |-> <<>>, stderr |-> Lines(1), exit |-> "uncaught"]

----------------------------------------------------------------------------
\* The tools as operations on the state

NoCall == [op |-> "none"]

\* One call of a tool function, from start to return or throw
Call(op, args, out) ==
    /\ fs' = out.disk
    /\ clock' = out.now
    /\ browsersOpen' = browsersOpen + out.launched - out.closed
    /\ last' = [op |-> op,
                name |-> Default(args.name, "default"),
                viewport |-> Default(args.viewport, "desktop"),
                before |-> fs,
                threw |-> out.threw,
                ret |-> out.ret,
                captured |-> out.captured,
                launched |-> out.launched,
                closed |-> out.closed]
    /\ UNCHANGED runs

TimeLeft == getPageDone(clock) <= MaxClock

\* Math.random() is called only by a run that gets as far as sampling, which
\* is a run that ends "passed" or "failed": only such a run draws its values.
Samples(out) ==
    /\ ~out.threw
    /\ "status" \in DOMAIN out.ret
    /\ out.ret.status \in {"passed", "failed"}

VisualRegression ==
    /\ TimeLeft
    /\ \E args \in RegressionArgs, env \in RegressionEnvs :
          \E random \in IF Samples(visualRegression(fs, clock, args, env))
                         THEN Randoms ELSE {NoRandom} :
             Call("visual_regression", args,
                  visualRegression(fs, clock, args, [env EXCEPT !.random = random]))
    /\ UNCHANGED proc

SaveBaseline ==
    /\ TimeLeft
    /\ \E args \in BaselineArgs, env \in CaptureEnvs :
          Call("save_baseline", args, saveBaseline(fs, clock, args, env))
    /\ UNCHANGED proc

UpdateBaseline ==
    /\ TimeLeft
    /\ \E args \in BaselineArgs, env \in CaptureEnvs :
          Call("update_baseline", args, updateBaseline(fs, clock, args, env))
    /\ UNCHANGED proc

CompareToBaseline ==
    /\ TimeLeft
    /\ \E args \in BaselineArgs, env \in CaptureEnvs :
          Call("compare_baseline", args, compareToBaseline(fs, clock, args, env))
    /\ UNCHANGED proc

ListBaselines ==
    /\ Call("list_baselines", NoArgs, listBaselines(fs, clock))
    /\ UNCHANGED proc

NoProcess == [server |-> "none"]

\* What the world may decide during one run of a tool
EnvsOf(name) ==
    CASE name = "visual_regression" -> RegressionEnvs
      [] name = "test_browsers"     -> CrossBrowserEnvs
      [] name = "list_baselines"    -> {env \in CaptureEnvs : env.fault = "none" /\ env.cap = Png(1, 0)}
      [] OTHER                      -> CaptureEnvs

\* A behaviour of SpecCLI is one process: it starts on a disk that earlier
\* processes have left and runs one command line.
NotStarted == proc = NoProcess

\* node server.js <tool> [args_json], lines 4140-4211
CliParseError ==
    /\ NotStarted
    /\ \E argv \in ArgvOver(Commands) :
          /\ ~parseArgs(argv).ok
          /\ proc' = Process("v5", argv, Uncaught)
    /\ UNCHANGED <<fs, clock, browsersOpen, last, runs>>

CliHelp ==
    /\ NotStarted
    /\ \E argv \in ArgvOver(Commands) :
          /\ parseArgs(argv).ok
          /\ Argv(argv, 2) = <<"help">> \/ ~Truthy(Argv(argv, 2))
          /\ proc' = Process("v5", argv,
                             [stdout |-> HelpLines, stderr |-> <<>>, exit |-> "clean"])
    /\ UNCHANGED <<fs, clock, browsersOpen, last, runs>>

CliTool ==
    /\ NotStarted
    /\ \E argv \in ArgvOver(Commands) :
          /\ parseArgs(argv).ok
          /\ Argv(argv, 2) # <<"help">> /\ Truthy(Argv(argv, 2))
          /\ LET command == Argv(argv, 2)[1]
                 args    == parseArgs(argv).value
             IN \E env \in EnvsOf(command) :
                  \E random \in IF Samples(handleTool(command, fs, clock, args, env))
                                 THEN Randoms ELSE {NoRandom} :
                     LET out == handleTool(command, fs, clock, args,
                                           [env EXCEPT !.random = random])
                     IN /\ Call(command, args, out)
                        /\ proc' = Process("v5", argv,
                                [printResult(out) EXCEPT
                                    !.exit = IF command = "watch" /\ "success" \in DOMAIN out.ret
                                             THEN "running" ELSE "clean"])

\* node server.js <tool_name> [args_json] of the first server, lines 459-471
CliV1ParseError ==
    /\ NotStarted
    /\ \E argv \in ArgvOver(CommandsV1) :
          /\ Truthy(Argv(argv, 2))
          /\ ~parseArgs(argv).ok
          /\ proc' = Process("v1", argv, Uncaught)
    /\ UNCHANGED <<fs, clock, browsersOpen, last, runs>>

CliV1Usage ==
    /\ NotStarted
    /\ \E argv \in ArgvOver(CommandsV1) :
          /\ ~Truthy(Argv(argv, 2))
          /\ proc' = Process("v1", argv,
                             [stdout |-> Lines(4), stderr |-> <<>>, exit |-> "clean"])
    /\ UNCHANGED <<fs, clock, browsersOpen, last, runs>>

CliV1Tool ==
    /\ NotStarted
    /\ \E argv \in ArgvOver(CommandsV1) :
          /\ Truthy(Argv(argv, 2))
          /\ parseArgs(argv).ok
          /\ \E env \in {e \in CaptureEnvs : e.cap = Png(1, 0) /\ e.fault # "screenshot"} :
                LET out == handleToolV1(Argv(argv, 2)[1], fs, clock, parseArgs(argv).value, env)
                IN /\ Call(Argv(argv, 2)[1], parseArgs(argv).value, out)
                   /\ proc' = Process("v1", argv, printResult(out))

\* The reports directories exist and are empty: lines 41-43
Init ==
    /\ fs = <<>>
    /\ clock = 0
    /\ browsersOpen = 0
    /\ last = NoCall
    /\ proc = NoProcess
    /\ runs = <<>>

Next ==
    \/ VisualRegression
    \/ SaveBaseline
    \/ UpdateBaseline
    \/ CompareToBaseline
    \/ ListBaselines

Spec == Init /\ [][Next]_vars

\* The comparison on its own: lines 2096-2121 applied to two buffers as two
\* runs would apply them, each run with its own key, time and samples.
RunContexts ==
    {[name |-> "default", viewport |-> "desktop", now |-> getPageDone(0)],
     [name |-> "home", viewport |-> "mobile", now |-> getPageDone(getPageDone(0))]}

compareIn(ctx, threshold, baselineBuffer, currentBuffer, random) ==
    compareBuffers(ctx.name, ctx.viewport, threshold, baselineBuffer, currentBuffer,
                   [baseline |-> baselinePath(ctx.name, ctx.viewport),
                    current  |-> regressionCurrentPath(ctx.name, ctx.viewport, ctx.now),
                    diff     |-> regressionDiffPath(ctx.name, ctx.viewport, ctx.now)],
                   random)

CompareTwice ==
    /\ last = NoCall
    /\ \E b \in Snapshots, c \in Snapshots, t \in ThresholdArgs :
          \E ctx1 \in RunContexts, ctx2 \in RunContexts, random1 \in Randoms, random2 \in Randoms :
             /\ digest(b) # digest(c)
             /\ last' = [op |-> "compare",
                         baselineBuffer |-> b, currentBuffer |-> c,
                         contexts |-> <<ctx1, ctx2>>,
                         randoms |-> <<random1, random2>>,
                         first  |-> compareIn(ctx1, Default(t, DEFAULT_THRESHOLD), b, c, random1),
                         second |-> compareIn(ctx2, Default(t, DEFAULT_THRESHOLD), b, c, random2)]
    /\ UNCHANGED <<fs, clock, browsersOpen, proc, runs>>

\* The lengths of screenshot files: the short ones of the model and lengths
\* of real pages, above the sample cap
FileLengths == (1..MaxLen) \cup {k * SAMPLE_CAP + d : k \in 2..4, d \in 0..MaxLen}

ReportSizeDiff ==
    /\ last = NoCall
    /\ \E baselineLength \in FileLengths, currentLength \in FileLengths :
          last' = [op |-> "sizeDiff",
                   baselineLength |-> baselineLength, currentLength |-> currentLength,
                   sizeDiff |-> sizeDiffText(baselineLength, currentLength)]
    /\ UNCHANGED <<fs, clock, browsersOpen, proc, runs>>

\* The baseline file of two keys, as each tool names it.  Any string is taken
\* as a viewport: getPage falls back to the desktop size for one that is not
\* a preset.
KeyNames == {"default", "home", "home_mobile", "hero"}

KeyViewports == {"desktop", "mobile", "landscape", "mobile_landscape"}

BaselinePathsOf(name, viewport) ==
    [key               |-> <<name, viewport>>,
     save_baseline     |-> saveBaselinePath(name, viewport),
     update_baseline   |-> updateBaselinePath(name, viewport),
     visual_regression |-> baselinePath(name, viewport),
     compare_baseline  |-> compareBaselinePath(name, viewport)]

BaselinePaths ==
    /\ last = NoCall
    /\ \E name1 \in KeyNames, name2 \in KeyNames,
          viewport1 \in KeyViewports, viewport2 \in KeyViewports :
          last' = [op |-> "paths",
                   one   |-> BaselinePathsOf(name1, viewport1),
                   other |-> BaselinePathsOf(name2, viewport2)]
    /\ UNCHANGED <<fs, clock, browsersOpen, proc, runs>>

NextPaths == BaselinePaths

SpecPaths == Init /\ [][NextPaths]_vars

NextComparator ==
    \/ CompareTwice
    \/ ReportSizeDiff

SpecComparator == Init /\ [][NextComparator]_vars

NextCLI ==
    \/ CliParseError
    \/ CliHelp
    \/ CliTool
    \/ CliV1ParseError
    \/ CliV1Usage
    \/ CliV1Tool

\* The baselines that save_baseline, update_baseline and visual_regression
\* runs of earlier processes can have left for the keys the command lines name
StoredBaselines ==
    LET keys  == {baselinePath("default", "desktop"), baselinePath("home", "mobile")}
    IN UNION {[held -> Snapshots] : held \in SUBSET keys}

InitCLI ==
    /\ fs \in StoredBaselines
    /\ clock = 0
    /\ browsersOpen = 0
    /\ last = NoCall
    /\ proc = NoProcess
    /\ runs = <<>>

SpecCLI == InitCLI /\ [][NextCLI]_vars

----------------------------------------------------------------------------
\* visual_regression processes side by side.  Each command line is a process
\* of its own, so the processes interleave at every call to the file system
\* and at every await.  A run r is at runs[r].pc in lines 2063-2124.

RunIds == {1, 2}

RaceSnapshots == {Png(MaxLen, f) : f \in Fills}

RaceKeys ==
    {<<"home", "mobile_landscape">>, <<"home_mobile", "landscape">>, <<"default", "desktop">>}

Run(key, cap) ==
    [pc |-> "launch", name |-> key[1], viewport |-> key[2], cap |-> cap,
     currentPath |-> "", baselineBuffer |-> <<>>, currentBuffer |-> <<>>,
     status |-> "running"]

RaceDisks ==
    LET files == {baselinePath(k[1], k[2]) : k \in RaceKeys}
    IN UNION {[held -> RaceSnapshots] : held \in SUBSET files}

InitRace ==
    /\ fs \in RaceDisks
    /\ clock = 0
    /\ browsersOpen = 0
    /\ last = [op |-> "concurrent", before |-> fs]
    /\ proc = NoProcess
    /\ runs \in {<<Run(<<"home", "mobile_landscape">>, cap1), Run(key2, cap2)>> :
                    cap1 \in RaceSnapshots, key2 \in RaceKeys, cap2 \in RaceSnapshots}

Step(r, changes) == runs' = [runs EXCEPT ![r] = changes]

\* a call of fs that finds no file throws ENOENT; the finally block follows
ThrowENOENT(r) == Step(r, [runs[r] EXCEPT !.pc = "close", !.status = "threw"])

\* const browser = await getBrowser(); const page = await getPage(...)
RaceLaunch(r) ==
    /\ runs[r].pc = "launch"
    /\ browsersOpen' = browsersOpen + 1
    /\ Step(r, [runs[r] EXCEPT !.pc = "stamp"])
    /\ UNCHANGED <<fs, clock, last, proc>>

\* const currentPath = join(DIFFS_DIR, `current_..._${timestamp()}.png`)
RaceStamp(r) ==
    /\ runs[r].pc = "stamp"
    /\ Step(r, [runs[r] EXCEPT !.pc = "screenshot",
                               !.currentPath = regressionCurrentPath(runs[r].name,
                                                   runs[r].viewport, clock)])
    /\ UNCHANGED <<fs, clock, browsersOpen, last, proc>>

\* await page.screenshot({ path: currentPath, fullPage: true })
RaceScreenshot(r) ==
    /\ runs[r].pc = "screenshot"
    /\ fs' = pageScreenshot(fs, runs[r].currentPath, runs[r].cap)
    /\ Step(r, [runs[r] EXCEPT !.pc = "exists"])
    /\ UNCHANGED <<clock, browsersOpen, last, proc>>

\* (the baseline is taken as absent whatever the disk holds)
RaceExistsNever(r) ==
    /\ runs[r].pc = "exists"
    /\ Step(r, [runs[r] EXCEPT !.pc = "createRead"])
    /\ UNCHANGED <<fs, clock, browsersOpen, last, proc>>

\* if (!existsSync(baselinePath))
RaceExists(r) ==
    /\ runs[r].pc = "exists"
    /\ Step(r, [runs[r] EXCEPT !.pc =
                   IF existsSync(fs, baselinePath(runs[r].name, runs[r].viewport))
                   THEN "readBaseline" ELSE "createRead"])
    /\ UNCHANGED <<fs, clock, browsersOpen, last, proc>>

\* readFileSync(currentPath), the argument of writeFileSync
RaceCreateRead(r) ==
    /\ runs[r].pc = "createRead"
    /\ IF existsSync(fs, runs[r].currentPath)
       THEN Step(r, [runs[r] EXCEPT !.pc = "createWrite",
                                    !.currentBuffer = readFileSync(fs, runs[r].currentPath)])
       ELSE ThrowENOENT(r)
    /\ UNCHANGED <<fs, clock, browsersOpen, last, proc>>

\* writeFileSync(baselinePath, ...); return { status: 'baseline_created' }
RaceCreateWrite(r) ==
    /\ runs[r].pc = "createWrite"
    /\ fs' = writeFileSync(fs, baselinePath(runs[r].name, runs[r].viewport),
                           runs[r].currentBuffer)
    /\ Step(r, [runs[r] EXCEPT !.pc = "close", !.status = "baseline_created"])
    /\ UNCHANGED <<clock, browsersOpen, last, proc>>

\* const baselineBuffer = readFileSync(baselinePath)
RaceReadBaseline(r) ==
    /\ runs[r].pc = "readBaseline"
    /\ Step(r, [runs[r] EXCEPT !.pc = "readCurrent",
                               !.baselineBuffer =
                                   readFileSync(fs, baselinePath(runs[r].name, runs[r].viewport))])
    /\ UNCHANGED <<fs, clock, browsersOpen, last, proc>>

\* const currentBuffer = readFileSync(currentPath); the two hashes
RaceReadCurrent(r) ==
    /\ runs[r].pc = "readCurrent"
    /\ IF existsSync(fs, runs[r].currentPath)
       THEN LET currentBuffer == readFileSync(fs, runs[r].currentPath)
            IN Step(r, [runs[r] EXCEPT !.currentBuffer = currentBuffer,
                                       !.pc = IF digest(runs[r].baselineBuffer) = digest(currentBuffer)
                                              THEN "unlink" ELSE "compare"])
       ELSE ThrowENOENT(r)
    /\ UNCHANGED <<fs, clock, browsersOpen, last, proc>>

\* unlinkSync(currentPath); return { status: 'identical' }
RaceUnlink(r) ==
    /\ runs[r].pc = "unlink"
    /\ IF existsSync(fs, runs[r].currentPath)
       THEN /\ fs' = unlinkSync(fs, runs[r].currentPath)
            /\ Step(r, [runs[r] EXCEPT !.pc = "close", !.status = "identical"])
       ELSE /\ ThrowENOENT(r)
            /\ UNCHANGED fs
    /\ UNCHANGED <<clock, browsersOpen, last, proc>>

\* the second screenshot, the samples and the verdict: lines 2094-2121
RaceCompare(r) ==
    /\ runs[r].pc = "compare"
    /\ \E random \in Randoms :
          Step(r, [runs[r] EXCEPT !.pc = "close",
                                  !.status = compareIn([name |-> runs[r].name,
                                                        viewport |-> runs[r].viewport,
                                                        now |-> clock],
                                                       DEFAULT_THRESHOLD,
                                                       runs[r].baselineBuffer,
                                                       runs[r].currentBuffer, random).status])
    /\ UNCHANGED <<fs, clock, browsersOpen, last, proc>>

\* finally { await browser.close(); }
RaceClose(r) ==
    /\ runs[r].pc = "close"
    /\ browsersOpen' = browsersOpen - browserClose(runs[r].status = "threw")
    /\ Step(r, [runs[r] EXCEPT !.pc = "done"])
    /\ UNCHANGED <<fs, clock, last, proc>>

\* time passes while the processes run
Tick ==
    /\ clock < MaxTick
    /\ \E r \in RunIds : runs[r].pc # "done"
    /\ clock' = clock + 1
    /\ UNCHANGED <<fs, browsersOpen, last, proc, runs>>

NextRace ==
    \/ Tick
    \/ \E r \in RunIds :
          \/ RaceLaunch(r)
          \/ RaceStamp(r)
          \/ RaceScreenshot(r)
          \/ RaceExists(r)
          \/ RaceCreateRead(r)
          \/ RaceCreateWrite(r)
          \/ RaceReadBaseline(r)
          \/ RaceReadCurrent(r)
          \/ RaceUnlink(r)
          \/ RaceCompare(r)
          \/ RaceClose(r)

SpecRace == InitRace /\ [][NextRace]_vars

----------------------------------------------------------------------------
\* One capture, await by await: getBrowser, page.goto with waitUntil
\* 'networkidle', page.waitForTimeout, page.screenshot.  runs[1] is the
\* call; the page's network traffic and the clock move beside it.

CaptureTools == {"save_baseline", "update_baseline", "visual_regression"}

Capture(tool, args, cap) ==
    [tool |-> tool, name |-> Default(args.name, "default"),
     viewport |-> Default(args.viewport, "desktop"), cap |-> cap,
     pc |-> "launch", requests |-> 0, quietSince |-> 0, idleAt |-> 0,
     settledAt |-> 0, shotAt |-> 0, status |-> "running"]

MaxRequests == 2   \* requests the page makes after the first one

CaptureDisks ==
    LET keys == {baselinePath("default", "desktop"), baselinePath("home", "mobile")}
    IN UNION {[held -> RaceSnapshots] : held \in SUBSET keys}

InitCapture ==
    /\ fs \in CaptureDisks
    /\ clock = 0
    /\ browsersOpen = 0
    /\ last = [op |-> "capture", before |-> fs]
    /\ proc = NoProcess
    /\ runs \in {<<Capture(tool, args, cap)>> :
                    tool \in CaptureTools, args \in BaselineArgs, cap \in RaceSnapshots}

\* the file the tool's first page.screenshot({ path }) writes
capturePath(run, now) ==
    CASE run.tool = "save_baseline" -> saveBaselinePath(run.name, run.viewport)
      [] run.tool = "update_baseline" -> updateBaselinePath(run.name, run.viewport)
      [] OTHER -> regressionCurrentPath(run.name, run.viewport, now)

\* const browser = await getBrowser(); browser.newPage(); addInitScript
CaptureLaunch ==
    /\ runs[1].pc = "launch"
    /\ browsersOpen' = browsersOpen + 1
    /\ Step(1, [runs[1] EXCEPT !.pc = "goto", !.quietSince = clock])
    /\ UNCHANGED <<fs, clock, last, proc>>

\* a request of the page is in flight at this tick
Traffic ==
    /\ runs[1].pc = "goto"
    /\ runs[1].quietSince < clock
    /\ runs[1].requests < MaxRequests
    /\ Step(1, [runs[1] EXCEPT !.quietSince = clock, !.requests = @ + 1])
    /\ UNCHANGED <<fs, clock, browsersOpen, last, proc>>

\* await page.goto(url, { waitUntil: 'networkidle' }) resolves: the network
\* has been quiet for the idle period
CaptureGoto ==
    /\ runs[1].pc = "goto"
    /\ clock >= runs[1].quietSince + NETWORK_IDLE
    /\ Step(1, [runs[1] EXCEPT !.pc = "settle", !.idleAt = clock])
    /\ UNCHANGED <<fs, clock, browsersOpen, last, proc>>

\* page.goto rejects: navigation error, or timeout: 30000 passed
CaptureGotoFails ==
    /\ runs[1].pc = "goto"
    /\ Step(1, [runs[1] EXCEPT !.pc = "close", !.status = "threw"])
    /\ UNCHANGED <<fs, clock, browsersOpen, last, proc>>

\* (the settle delay not waited for)
CaptureSettleAtOnce ==
    /\ runs[1].pc = "settle"
    /\ Step(1, [runs[1] EXCEPT !.pc = "screenshot", !.settledAt = clock])
    /\ UNCHANGED <<fs, clock, browsersOpen, last, proc>>

\* await page.waitForTimeout(options.settleTime || 1500) resolves
CaptureSettle ==
    /\ runs[1].pc = "settle"
    /\ clock >= runs[1].idleAt + SETTLE_TIME
    /\ Step(1, [runs[1] EXCEPT !.pc = "screenshot", !.settledAt = clock])
    /\ UNCHANGED <<fs, clock, browsersOpen, last, proc>>

\* what visualRegression does to the disk between the screenshot and its
\* return: lines 2069-2090
afterScreenshot(disk, run, currentPath) ==
    LET baselinePath_ == baselinePath(run.name, run.viewport)
    IN IF ~existsSync(disk, baselinePath_)
       THEN [disk |-> writeFileSync(disk, baselinePath_, readFileSync(disk, currentPath)),
             status |-> "baseline_created"]
       ELSE IF digest(readFileSync(disk, baselinePath_)) = digest(readFileSync(disk, currentPath))
            THEN [disk |-> unlinkSync(disk, currentPath), status |-> "identical"]
            ELSE [disk |-> disk, status |-> "compared"]

\* await page.screenshot({ path, fullPage: true }) and the tool's return
CaptureScreenshot ==
    /\ runs[1].pc = "screenshot"
    /\ LET path == capturePath(runs[1], clock)
           shot == pageScreenshot(fs, path, runs[1].cap)
           out  == IF runs[1].tool = "visual_regression"
                   THEN afterScreenshot(shot, runs[1], path)
                   ELSE [disk |-> shot, status |-> "success"]
       IN /\ fs' = out.disk
          /\ Step(1, [runs[1] EXCEPT !.pc = "close", !.shotAt = clock,
                                     !.status = out.status])
    /\ UNCHANGED <<clock, browsersOpen, last, proc>>

\* finally { await browser.close(); }
CaptureClose ==
    /\ runs[1].pc = "close"
    /\ browsersOpen' = browsersOpen - browserClose(runs[1].status = "threw")
    /\ Step(1, [runs[1] EXCEPT !.pc = "done"])
    /\ UNCHANGED <<fs, clock, last, proc>>

\* 500 ms pass
CaptureTick ==
    /\ clock < MaxClock
    /\ runs[1].pc # "done"
    /\ clock' = clock + 1
    /\ UNCHANGED <<fs, browsersOpen, last, proc, runs>>

NextCapture ==
    \/ CaptureLaunch
    \/ Traffic
    \/ CaptureGoto
    \/ CaptureGotoFails
    \/ CaptureSettle
    \/ CaptureScreenshot
    \/ CaptureClose
    \/ CaptureTick

SpecCapture == InitCapture /\ [][NextCapture]_vars

----------------------------------------------------------------------------
\* Historical metrics: trackMetrics and getMetricsHistory.  A history file
\* holds the JSON array of the entries recorded so far.

HISTORY_CAP == 100           \* if (history.length > 100) history = history.slice(-100)
DEFAULT_LIMIT == 20          \* getMetricsHistory({ limit = 20 })

HISTORY_DIR == join(REPORTS_DIR, "history")

historyFile(name) == join(HISTORY_DIR, "metrics_" \o name \o ".json")

\* Array.prototype.slice(start): a negative start counts from the end, and
\* -0 is 0
slice(array, start) ==
    LET from == IF start < 0 THEN (IF Len(array) + start < 0 THEN 0 ELSE Len(array) + start)
                ELSE Min(start, Len(array))
    IN SubSeq(array, from + 1, Len(array))

\* (the first 100 entries kept)
keepOldest(history) ==
    IF Len(history) > HISTORY_CAP THEN SubSeq(history, 1, HISTORY_CAP) ELSE history

\* if (history.length > 100) history = history.slice(-100);
keepLast(history) ==
    IF Len(history) > HISTORY_CAP THEN slice(history, 0 - HISTORY_CAP) ELSE history

\* trackMetrics({ name }): metrics is the entry the page gives at this call
trackMetrics(disk, args, metrics, fault) ==
    LET name    == Default(args.name, "default")
        file    == historyFile(name)
        stored  == IF existsSync(disk, file) THEN readFileSync(disk, file) ELSE <<>>
        history == keepLast(Append(stored, [metrics EXCEPT !.name = name]))
    IN IF fault # "none"
       THEN [threw |-> TRUE, disk |-> disk, ret |-> [message |-> "page.goto: failed"]]
       ELSE [threw |-> FALSE,
             disk  |-> writeFileSync(disk, file, history),
             ret   |-> [success |-> TRUE,
                        current |-> [metrics EXCEPT !.name = name],
                        history |-> [entries |-> Len(history), file |-> file]]]

\* history.slice(-limit)
sliceLast(history, limit) == slice(history, 0 - limit)

getMetricsHistory(disk, args) ==
    LET name  == Default(args.name, "default")
        limit == Default(args.limit, DEFAULT_LIMIT)
        file  == historyFile(name)
    IN IF ~existsSync(disk, file)
       THEN [threw |-> FALSE, disk |-> disk,
             ret |-> [success |-> FALSE,
                      error |-> "No history found. Run track_metrics first."]]
       ELSE [threw |-> FALSE, disk |-> disk,
             ret |-> [success |-> TRUE,
                      history |-> sliceLast(readFileSync(disk, file), limit),
                      total   |-> Len(readFileSync(disk, file))]]

MaxCalls == 3      \* track_metrics calls in one behaviour

HistoryNames == {<<>>, <<"daily">>}

LoadTimes == {1, 2}

LimitArgs == {<<>>, <<0>>, <<1>>, <<HISTORY_CAP + 1>>}

\* the entry of the call number at: what page.evaluate and Date.now give
Metrics(at, loadTime) == [at |-> at, loadTime |-> loadTime, name |-> ""]

\* a history file that at earlier calls have left
StoredHistory(name, n) == [i \in 1..n |-> [Metrics(i, 1) EXCEPT !.name = name]]

StoredLengths == {0, 1, HISTORY_CAP - 1, HISTORY_CAP}

HistoryDisks ==
    {[file \in {historyFile(Default(a, "default")) : a \in {b \in HistoryNames : n[b] > 0}} |->
         LET a == CHOOSE b \in HistoryNames : historyFile(Default(b, "default")) = file
         IN StoredHistory(Default(a, "default"), n[a])] :
       n \in [HistoryNames -> StoredLengths]}

\* last.log[name]: every entry recorded for the name, in call order
InitHistory ==
    /\ fs \in HistoryDisks
    /\ clock = 0
    /\ browsersOpen = 0
    /\ last = [op |-> "none", calls |-> 0,
               log |-> [a \in HistoryNames |->
                           IF existsSync(fs, historyFile(Default(a, "default")))
                           THEN readFileSync(fs, historyFile(Default(a, "default")))
                           ELSE <<>>]]
    /\ proc = NoProcess
    /\ runs = <<>>

TrackMetrics ==
    /\ last.calls < MaxCalls
    /\ \E a \in HistoryNames, loadTime \in LoadTimes, fault \in {"none", "goto"} :
          LET args == [NoArgs EXCEPT !.name = a]
              out  == trackMetrics(fs, args, Metrics(Len(last.log[a]) + 1, loadTime), fault)
          IN /\ fs' = out.disk
             /\ last' = [op |-> "track_metrics", calls |-> last.calls + 1,
                         name |-> a, threw |-> out.threw, ret |-> out.ret, before |-> fs,
                         log |-> IF out.threw THEN last.log
                                 ELSE [last.log EXCEPT ![a] = Append(@, out.ret.current)]]
    /\ UNCHANGED <<clock, browsersOpen, proc, runs>>

GetHistory ==
    /\ last.op # "get_history"
    /\ \E a \in HistoryNames, limit \in LimitArgs :
          LET out == getMetricsHistory(fs, [name |-> a, limit |-> limit])
          IN last' = [op |-> "get_history", calls |-> last.calls,
                      name |-> a, limit |-> limit, threw |-> out.threw,
                      ret |-> out.ret, before |-> fs, log |-> last.log]
    /\ UNCHANGED <<fs, clock, browsersOpen, proc, runs>>

NextHistory == TrackMetrics \/ GetHistory

SpecHistory == InitHistory /\ [][NextHistory]_vars

----------------------------------------------------------------------------
\* Watch mode: the passes of runTests that startWatchMode and its fs.watch
\* callback start.  runs holds one record for each pass, in the order they
\* were started; last holds the closure's lastRun and the latest event.

DEFAULT_INTERVAL == 10       \* interval = 5000, in ticks of 500 ms
MaxPasses == 3               \* passes started in one behaviour

IntervalArgs == {<<>>, <<2>>, <<3>>}

\* filename of a change event: null, a site file, files the callback skips
Filenames == {<<>>, <<"index.html">>, <<"node_modules/a.js">>, <<".git/HEAD">>}

\* String.prototype.includes
includes(text, part) ==
    \E i \in 1..(Len(text) - Len(part) + 1) : SubSeq(text, i, i + Len(part) - 1) = part

Unfinished == 0 - 1

Pass(by, now) == [by |-> by, startedAt |-> now, finishedAt |-> Unfinished]

InitWatch ==
    /\ fs = <<>>
    /\ clock = 0
    /\ browsersOpen = 0
    /\ \E args \in IntervalArgs :
          last = [op |-> "watch", interval |-> Default(args, DEFAULT_INTERVAL),
                  lastRun |-> 0, watching |-> FALSE, event |-> <<>>, started |-> FALSE]
    /\ proc = NoProcess
    /\ runs = <<>>

\* // Initial run: await runTests();
WatchInitialRun ==
    /\ runs = <<>>
    /\ runs' = <<Pass("initial", clock)>>
    /\ UNCHANGED <<fs, clock, browsersOpen, last, proc>>

\* the tests of a pass are through: lastRun = Date.now(); after the initial
\* pass the watcher is registered
PassFinish(i) ==
    /\ i \in 1..Len(runs)
    /\ runs[i].finishedAt = Unfinished
    /\ clock > runs[i].startedAt
    /\ runs' = [runs EXCEPT ![i].finishedAt = clock]
    /\ last' = [last EXCEPT !.lastRun = clock, !.watching = TRUE]
    /\ UNCHANGED <<fs, clock, browsersOpen, proc>>

\* the callback of watch(SITE_ROOT, ...): TRUE when it goes on to runTests()
watchCallback(filename) ==
    /\ filename # <<>>
    /\ ~includes(filename[1], "node_modules")
    /\ ~includes(filename[1], ".git")
    /\ clock - last.lastRun >= last.interval

\* a change event arrives
FileChange ==
    /\ last.watching
    /\ Len(runs) < MaxPasses
    /\ \E filename \in Filenames :
          /\ last' = [last EXCEPT !.event = filename, !.started = watchCallback(filename)]
          /\ runs' = IF watchCallback(filename)
                     THEN Append(runs, Pass("change", clock)) ELSE runs
    /\ UNCHANGED <<fs, clock, browsersOpen, proc>>

WatchTick ==
    /\ clock < MaxClock
    /\ clock' = clock + 1
    /\ UNCHANGED <<fs, browsersOpen, last, proc, runs>>

NextWatch ==
    \/ WatchInitialRun
    \/ \E i \in 1..MaxPasses : PassFinish(i)
    \/ FileChange
    \/ WatchTick

SpecWatch == InitWatch /\ [][NextWatch]_vars

----------------------------------------------------------------------------
\* recordJourney: the steps of a journey, one after the other, on one page.
\* A step is its action, its selector and whether one of its awaits rejects.

MaxSteps == 2      \* longest list of steps given to record_journey

JourneyStep(action, selector, throws) ==
    [action |-> action, selector |-> selector, throws |-> throws]

defaultSteps ==
    <<JourneyStep("wait", "", FALSE), JourneyStep("screenshot", "", FALSE),
      JourneyStep("scroll", "", FALSE), JourneyStep("screenshot", "", FALSE),
      JourneyStep("click", "a[href^=\"#\"]", FALSE), JourneyStep("screenshot", "", FALSE),
      JourneyStep("scroll", "", FALSE), JourneyStep("screenshot", "", FALSE)>>

\* the steps a caller may give: every case of the switch, "drag" for the
\* default case, selectors the page has and has not
JourneySteps ==
    {JourneyStep(action, "", throws) : action \in {"wait", "screenshot", "scroll"},
                                       throws \in BOOLEAN}
    \cup {JourneyStep(action, selector, throws) :
              action \in {"click", "hover", "type"},
              selector \in {".hero", "#missing"}, throws \in BOOLEAN}
    \cup {JourneyStep("drag", "", FALSE)}

\* one pass through the switch for journey[i]: the stepResult, the disk and
\* the clock after it
journeyStep(disk, now, name, step, i) ==
    LET stepResult == [step |-> i, action |-> step.action]
        with(status) == [step |-> i, action |-> step.action, status |-> status]
        error == [step |-> i, action |-> step.action, status |-> "error",
                  error |-> "err.message"]
        found == step.selector \in PageSelectors
        filepath == join(REPORTS_DIR, "journey_" \o name \o "_" \o ToString(i - 1)
                                          \o "_" \o timestamp(now) \o ".png")
        same(result) == [result |-> result, disk |-> disk, now |-> now]
    IN CASE step.action = "wait" ->
              IF step.throws THEN same(error)
              ELSE [result |-> with("completed"), disk |-> disk, now |-> now + 2]
         [] step.action = "screenshot" ->
              IF step.throws THEN same(error)
              ELSE [result |-> [step |-> i, action |-> step.action,
                                status |-> "captured", file |-> filepath],
                    disk |-> pageScreenshot(disk, filepath, Png(1, 0)), now |-> now]
         [] step.action = "scroll" ->
              IF step.throws THEN same(error)
              ELSE [result |-> with("scrolled"), disk |-> disk, now |-> now + 1]
         [] step.action = "click" ->
              IF step.throws THEN same(error)
              ELSE IF found THEN same(with("clicked"))
                   ELSE same(with("element-not-found"))
         [] step.action = "hover" ->
              IF step.throws THEN same(error)
              ELSE IF found THEN same(with("hovered"))
                   ELSE same(stepResult)
         [] step.action = "type" ->
              IF step.throws \/ ~found THEN same(error)
              ELSE same(with("typed"))
         [] OTHER -> same(with("unknown-action"))

\* for (let i = 0; i < journey.length; i++) { ...; recordings.push(stepResult) }
RECURSIVE journeyLoop(_, _, _, _, _, _)
journeyLoop(disk, now, name, journey, i, recordings) ==
    IF i > Len(journey)
    THEN [recordings |-> recordings, disk |-> disk, now |-> now]
    ELSE LET out == journeyStep(disk, now, name, journey[i], i)
         IN journeyLoop(out.disk, out.now, name, journey, i + 1,
                        Append(recordings, out.result))

recordJourney(disk, now, args, env) ==
    LET name    == Default(args.name, "journey")
        journey == IF Len(args.steps) > 0 THEN args.steps ELSE defaultSteps
        loop    == journeyLoop(disk, getPageDone(now), name, journey, 1, <<>>)
    IN withBrowser(env, disk, now,
           IF getPageFails(env) THEN Thrown(disk, now, <<>>, "page.goto: failed")
           ELSE Returned(loop.disk, loop.now, <<>>,
                         [success |-> TRUE, journey |-> name, steps |-> loop.recordings]))

StepLists == UNION {[1..n -> JourneySteps] : n \in 0..MaxSteps}

\* one call of record_journey on the empty reports directory
RecordJourney ==
    /\ last = NoCall
    /\ \E steps \in StepLists, fault \in {"none", "goto"} :
          LET args == [name |-> <<>>, steps |-> steps]
              env  == [fault |-> fault]
              out  == recordJourney(fs, clock, args, env)
          IN /\ fs' = out.disk
             /\ clock' = out.now
             /\ browsersOpen' = browsersOpen + out.launched - out.closed
             /\ last' = [op |-> "record_journey", steps |-> steps,
                         journey |-> IF Len(steps) > 0 THEN steps ELSE defaultSteps,
                         before |-> fs, threw |-> out.threw, ret |-> out.ret,
                         launched |-> out.launched, closed |-> out.closed]
    /\ UNCHANGED <<proc, runs>>

NextJourney == RecordJourney

SpecJourney == Init /\ [][NextJourney]_vars

----------------------------------------------------------------------------
\* The atom animation of the site's page script.  last is the DOM the script
\* writes to, runs the pending setTimeout(..., 300) callbacks of
\* createElectronShells in the order they were set.

MaxEvents == 3     \* clicks and cycle ticks after the page has loaded

MAX_VISIBLE == 8   \* Math.min(electronCount, 8)

electronConfigs ==
    [iron     |-> [number |-> 26, shells |-> <<2, 8, 14, 2>>, color |-> "#f97316"],
     copper   |-> [number |-> 29, shells |-> <<2, 8, 18, 1>>, color |-> "#fbbf24"],
     gold     |-> [number |-> 79, shells |-> <<2, 8, 18, 32, 18, 1>>, color |-> "#fcd34d"],
     titanium |-> [number |-> 22, shells |-> <<2, 8, 10, 2>>, color |-> "#a78bfa"],
     platinum |-> [number |-> 78, shells |-> <<2, 8, 18, 32, 17, 1>>, color |-> "#e2e8f0"],
     cobalt   |-> [number |-> 27, shells |-> <<2, 8, 15, 2>>, color |-> "#60a5fa"]]

cubeRotationOrder == <<"iron", "copper", "gold", "platinum", "titanium", "cobalt">>

cubePositions ==
    <<"pos-top-left", "pos-top-right", "pos-center-right", "pos-bottom-right",
      "pos-bottom-left", "pos-center-left">>

\* document.querySelectorAll('.cube-face'): the cube has a face for each
\* element of the rotation, carrying it as data-element
cubeFaces == {[face |-> i, element |-> cubeRotationOrder[i]] : i \in 1..Len(cubeRotationOrder)}

\* cubeRotationOrder.indexOf(elementKey), from 0
indexOf(elementKey) ==
    CHOOSE i \in 0..(Len(cubeRotationOrder) - 1) : cubeRotationOrder[i + 1] = elementKey

\* the shells the timeout callback builds from a config, and the label text
shellsOf(config) ==
    [shellIndex \in 1..Len(config.shells) |->
        [electrons |-> Min(config.shells[shellIndex], MAX_VISIBLE),
         borderColor |-> config.color \o "40"]]

labelOf(config) ==
    [text |-> ToString(Len(config.shells)) \o " shells · " \o ToString(config.number)
                  \o " electrons",
     color |-> config.color]

\* createElectronShells up to its setTimeout: config is read now, the
\* container fades out, the callback is set
createElectronShells(dom, elementKey) ==
    [dom EXCEPT !.opacity = "0"]

\* the callback of setTimeout(..., 300) for the config it closed over
shellsTimeout(dom, elementKey) ==
    [dom EXCEPT !.shells = shellsOf(electronConfigs[elementKey]),
                !.opacity = "1",
                !.label = labelOf(electronConfigs[elementKey])]

\* (the faces of the element marked, the marks of the others left)
setActiveElementAddsOnly(dom, elementKey, index) ==
    [createElectronShells(dom, elementKey) EXCEPT
        !.filter = "brightness(1.5)",
        !.dataElement = elementKey,
        !.position = cubePositions[(index % Len(cubePositions)) + 1],
        !.active = @ \cup {f \in cubeFaces : f.element = elementKey},
        !.tagColor = electronConfigs[elementKey].color,
        !.index = index]

\* setActiveElement(elementKey, index), all but the timers it sets
setActiveElement(dom, elementKey, index) ==
    [createElectronShells(dom, elementKey) EXCEPT
        !.filter = "brightness(1.5)",
        !.dataElement = elementKey,
        !.position = cubePositions[(index % Len(cubePositions)) + 1],
        !.active = {f \in cubeFaces : f.element = elementKey},
        !.tagColor = electronConfigs[elementKey].color,
        !.index = index]

\* the page as the HTML gives it, before the script runs
PageLoaded ==
    [op |-> "atom", dataElement |-> "", shells |-> <<>>, label |-> [text |-> "", color |-> ""],
     opacity |-> "1", filter |-> "", position |-> "", active |-> {}, tagColor |-> "",
     index |-> 0, flashes |-> 0, event |-> "load", events |-> 0, overlapped |-> FALSE]

ShellsTimer(elementKey) == [callback |-> "shells", elementKey |-> elementKey]

\* setActiveElement('iron', 0); setInterval(cycleWithCube, 4000);
InitAtom ==
    /\ fs = <<>>
    /\ clock = 0
    /\ browsersOpen = 0
    /\ last = [setActiveElement(PageLoaded, "iron", 0) EXCEPT !.flashes = 1]
    /\ proc = NoProcess
    /\ runs = <<ShellsTimer("iron")>>

\* one activation by an event: the DOM writes and the two timers set
Activate(event, elementKey, index) ==
    /\ last.events < MaxEvents
    /\ last' = [setActiveElement(last, elementKey, index) EXCEPT
                   !.flashes = @ + 1, !.event = event, !.events = @ + 1,
                   !.overlapped = @ \/ (runs # <<>> /\ runs[Len(runs)].elementKey # elementKey)]
    /\ runs' = Append(runs, ShellsTimer(elementKey))
    /\ UNCHANGED <<fs, clock, browsersOpen, proc>>

\* face.addEventListener('click', ...)
ClickFace ==
    \E face \in cubeFaces : Activate("click", face.element, indexOf(face.element))

\* setInterval(cycleWithCube, 4000)
CycleWithCube ==
    LET next == (last.index + 1) % Len(cubeRotationOrder)
    IN Activate("tick", cubeRotationOrder[next + 1], next)

\* timers of one delay fire in the order they were set
dueTimer(timers) == 1

\* a 300 ms timer fires
ShellsTimerFires ==
    /\ runs # <<>>
    /\ LET i == dueTimer(runs)
       IN /\ last' = shellsTimeout(last, runs[i].elementKey)
          /\ runs' = [j \in 1..(Len(runs) - 1) |-> IF j < i THEN runs[j] ELSE runs[j + 1]]
    /\ UNCHANGED <<fs, clock, browsersOpen, proc>>

\* a 200 ms timer fires: atomContainer.style.filter = 'brightness(1)'
FlashTimerFires ==
    /\ last.flashes > 0
    /\ last' = [last EXCEPT !.flashes = @ - 1, !.filter = "brightness(1)"]
    /\ UNCHANGED <<fs, clock, browsersOpen, proc, runs>>

NextAtom ==
    \/ ClickFace
    \/ CycleWithCube
    \/ ShellsTimerFires
    \/ FlashTimerFires

SpecAtom == InitAtom /\ [][NextAtom]_vars

----------------------------------------------------------------------------
\* Properties of the baseline tools

\* The baseline file of the (name, viewport) key of the most recent call
KeyFile == join(BASELINES_DIR, "baseline_" \o last.name \o "_" \o last.viewport \o ".png")

\* The baseline store of a disk: file name |-> bytes, for the files of
\* BASELINES_DIR
BaselineStore(disk) ==
    [f \in readdirSync(disk, BASELINES_DIR) |-> disk[join(BASELINES_DIR, f)]]

\* The most recent call was visual_regression and it returned a result
RegressionReturned == last.op = "visual_regression" /\ ~last.threw

\* C1: a visual_regression result whose status is "passed" or "failed" is
\* "passed" exactly when the diffPercentage it reports is at most the
\* threshold it reports.
C1_PassedIffReportedWithinThreshold ==
    (last.op = "visual_regression" /\ Samples(last)) =>
        (last.ret.status = "passed" <=> last.ret.diffPercentage <= last.ret.threshold)

\* C2: when a baseline exists for the key, visual_regression returns
\* "identical" exactly when the stored baseline bytes and the captured bytes
\* are the same bytes.
C2_IdenticalIffSameBytes ==
    (RegressionReturned /\ KeyFile \in DOMAIN last.before) =>
        (last.ret.status = "identical" <=> last.before[KeyFile] = last.captured[1])

\* A run against a stored baseline that captured the same bytes and was told
\* "identical"
C2_IdenticalReturned ==
    /\ RegressionReturned
    /\ KeyFile \in DOMAIN last.before
    /\ last.before[KeyFile] = last.captured[1]
    /\ last.ret.status = "identical"

\* C3: in a sequence of save_baseline, update_baseline, visual_regression and
\* compare_baseline calls made one at a time, a visual_regression call that
\* returns reports "baseline_created" exactly when no baseline was stored for
\* its key when it started.
C3_CreatedIffNoBaseline ==
    RegressionReturned =>
        (last.ret.status = "baseline_created" <=> KeyFile \notin DOMAIN last.before)

\* A run that started on a disk with files of other keys or other kinds but
\* none for its key, and reported "baseline_created"
C3_CreatedAfterOtherCalls ==
    /\ RegressionReturned
    /\ last.before # <<>>
    /\ KeyFile \notin DOMAIN last.before
    /\ last.ret.status = "baseline_created"

\* C4: the diffPercentage a visual_regression result reports lies in
\* [0, 100], whatever the two lengths and the samples.
C4_DiffPercentageWithin0And100 ==
    (last.op = "visual_regression" /\ Samples(last)) =>
        (0 <= last.ret.diffPercentage /\ last.ret.diffPercentage <= 100 * 100)

\* C5: a visual_regression call against a key that has a baseline, a
\* compare_baseline call and a list_baselines call leave the baseline store
\* as it was: the same files, each with the same bytes, whether the call
\* returned (identical, passed, failed) or threw.
C5_BaselinesUntouched ==
    (\/ last.op = "visual_regression" /\ KeyFile \in DOMAIN last.before
     \/ last.op \in {"compare_baseline", "list_baselines"}) =>
        BaselineStore(fs) = BaselineStore(last.before)

\* A run that found the page different from the stored baseline and said
\* "failed"
C5_FailedAgainstBaseline ==
    /\ RegressionReturned
    /\ KeyFile \in DOMAIN last.before
    /\ last.ret.status = "failed"
    /\ last.before[KeyFile] # last.captured[1]

\* C6: a visual_regression call against a key without a baseline that
\* returns, returns "baseline_created" with no comparison result, and the
\* baseline then stored for the key is the snapshot the call captured.
C6_FirstRunStoresCapture ==
    (RegressionReturned /\ KeyFile \notin DOMAIN last.before) =>
        /\ last.ret.status = "baseline_created"
        /\ DOMAIN last.ret \cap {"diffPercentage", "threshold", "current", "diff", "sizeDiff"} = {}
        /\ Len(last.captured) = 1
        /\ KeyFile \in DOMAIN fs
        /\ fs[KeyFile] = last.captured[1]

\* A first run whose capture is more than the PNG signature
C6_FirstRunDone ==
    /\ RegressionReturned
    /\ KeyFile \notin DOMAIN last.before
    /\ Len(last.captured) = 1
    /\ Len(last.captured[1]) > 1
    /\ KeyFile \in DOMAIN fs

\* The most recent call returned { success: true, ... }
Succeeded == ~last.threw /\ "success" \in DOMAIN last.ret /\ last.ret.success

C11_CurrentDiscardedOrRetained ==
    RegressionReturned =>
        /\ last.ret.status = "identical" =>
              join(DIFFS_DIR, "current_" \o last.name \o "_" \o last.viewport \o "_"
                              \o timestamp(clock) \o ".png") \notin DOMAIN fs
        /\ last.ret.status \in {"passed", "failed"} =>
              /\ last.ret.current \in DOMAIN fs
              /\ fs[last.ret.current] = last.captured[1]

\* A run told "identical" on a disk that holds the current snapshot of an
\* earlier run
C11_IdenticalAfterRetained ==
    /\ RegressionReturned
    /\ last.ret.status = "identical"
    /\ readdirSync(fs, DIFFS_DIR) # {}

\* C12: starting without a baseline, visual_regression runs on one key
\* against a page that renders to the same bytes every time return
\* "baseline_created" the first time, and the second and every later time a
\* result with status "identical" and diffPercentage 0.
C12_RerunIdenticalWithZeroDiff ==
    RegressionReturned =>
        /\ KeyFile \notin DOMAIN last.before => last.ret.status = "baseline_created"
        /\ (KeyFile \in DOMAIN last.before /\ last.before[KeyFile] = last.captured[1]) =>
              /\ last.ret.status = "identical"
              /\ "diffPercentage" \in DOMAIN last.ret
              /\ last.ret.diffPercentage = 0

----------------------------------------------------------------------------
\* Properties of the comparison

\* C13: whenever the baseline and the current snapshot differ in length, the
\* sizeDiff reported is not zero, however small the difference is next to
\* the baseline length.
C13_SizeDiffNonZero ==
    (last.op = "sizeDiff" /\ last.baselineLength # last.currentLength) =>
        last.sizeDiff # "0.00%"

\* The byte positions the samples of a run fall on
SampledPositions(random) ==
    LET shorter == Min(Len(last.baselineBuffer), Len(last.currentBuffer))
        iters   == (Min(shorter, SAMPLE_CAP) + SAMPLE_STRIDE - 1) \div SAMPLE_STRIDE
    IN [n \in 1..iters |-> (random[n] * shorter) \div MaxLen]

C18_BaselinePathInjective ==
    last.op = "paths" =>
        /\ \A k \in {last.one, last.other} :
              /\ k.save_baseline = k.visual_regression
              /\ k.update_baseline = k.visual_regression
              /\ k.compare_baseline = k.visual_regression
        /\ last.one.key # last.other.key =>
              last.one.visual_regression # last.other.visual_regression

\* C19: after any sequence of save_baseline, update_baseline and
\* visual_regression calls, list_baselines returns one entry for each stored
\* baseline, count is the number of entries, and each entry names the key of
\* its baseline: its name is the name the baseline was saved under.
C19_ListNamesStoredKeys ==
    last.op = "list_baselines" =>
        /\ last.ret.count = Cardinality(last.ret.baselines)
        /\ {e.path : e \in last.ret.baselines} =
              {join(BASELINES_DIR, f) : f \in DOMAIN BaselineStore(fs)}
        /\ \A e \in last.ret.baselines :
              \E name \in {Default(n, "default") : n \in NameArgs},
                 viewport \in {Default(v, "desktop") : v \in ViewportArgs} :
                 /\ e.path = saveBaselinePath(name, viewport)
                 /\ e.name = name

\* C20: compare_baseline on a key without a stored baseline returns
\* { success: false, error } and has launched no browser, captured nothing
\* and created no baseline: the disk is as it was.
C20_CompareWithoutBaseline ==
    (last.op = "compare_baseline" /\ KeyFile \notin DOMAIN last.before) =>
        /\ ~last.threw
        /\ DOMAIN last.ret = {"success", "error"}
        /\ last.ret.success = FALSE
        /\ last.launched = 0
        /\ last.captured = <<>>
        /\ fs = last.before

\* A compare_baseline call on a key without baseline while another key has
\* one
C20_ComparedMissingKey ==
    /\ last.op = "compare_baseline"
    /\ KeyFile \notin DOMAIN last.before
    /\ DOMAIN BaselineStore(last.before) # {}
    /\ "error" \in DOMAIN last.ret

----------------------------------------------------------------------------
\* Properties of one command line

\* C8: when a tool has finished, by a return or by an exception, every
\* browser it launched is closed: none is left open.
C8_NoBrowserLeftOpen ==
    /\ browsersOpen = 0
    /\ last.op # "none" => last.closed = last.launched

\* A visual_regression run that launched a browser and failed inside its try
\* block
C8_FailedAfterLaunch ==
    /\ last.op = "visual_regression"
    /\ last.launched = 1
    /\ "error" \in DOMAIN last.ret
    /\ browsersOpen = 0

\* C9: whatever the command and the argument text, a failure is caught and
\* reported as an object: the process does not die of an uncaught exception
\* and reports no failure as text on the error stream.
C9_FailuresCaughtAndStructured ==
    proc.server # "none" => (proc.exit # "uncaught" /\ proc.stderr = <<>>)

\* C10: every command line, on success and on failure, with no command, with
\* help and with watch, writes one JSON object to its output and nothing else.
C10_ExactlyOneJsonObject ==
    proc.server # "none" => (Len(proc.stdout) = 1 /\ proc.stdout[1].kind = "json")

----------------------------------------------------------------------------
\* Properties of runs side by side

BothDone == \A r \in RunIds : runs[r].pc = "done"

KeyOf(r) == <<runs[r].name, runs[r].viewport>>

\* what the run r returns when it is the only one, from the first disk
AloneStatuses(r) ==
    LET file == baselinePath(runs[r].name, runs[r].viewport)
    IN IF ~existsSync(last.before, file)
       THEN {"baseline_created"}
       ELSE IF digest(readFileSync(last.before, file)) = digest(runs[r].cap)
            THEN {"identical"}
            ELSE {compareIn([name |-> runs[r].name, viewport |-> runs[r].viewport,
                             now |-> 0], DEFAULT_THRESHOLD,
                            readFileSync(last.before, file), runs[r].cap, random).status :
                      random \in Randoms}

\* the baseline the run r leaves when it is the only one
AloneBaseline(r) ==
    LET file == baselinePath(runs[r].name, runs[r].viewport)
    IN IF existsSync(last.before, file) THEN readFileSync(last.before, file)
       ELSE runs[r].cap

\* C15: two runs at the same time on different keys do not affect each
\* other: each returns what it returns alone and leaves the baseline of its
\* key as it leaves it alone.
C15_DifferentKeysApart ==
    (BothDone /\ KeyOf(1) # KeyOf(2)) =>
        \A r \in RunIds :
            /\ runs[r].status \in AloneStatuses(r)
            /\ readFileSync(fs, baselinePath(runs[r].name, runs[r].viewport)) = AloneBaseline(r)

\* C16: no run reads, overwrites or deletes the current snapshot of another
\* run: what a run reads at its current path is the page it captured, and
\* the file is there when the run reads or deletes it.
C16_CurrentFilesApart ==
    \A r \in RunIds :
        /\ runs[r].status # "threw"
        /\ runs[r].currentBuffer \in {<<>>, runs[r].cap}

\* C17: two runs at the same time on one key return 'baseline_created' both
\* only when no baseline was stored before, each having found none and each
\* having written one, and the stored baseline is what the last of them wrote.
C17_BothCreateFromAbsent ==
    (BothDone /\ KeyOf(1) = KeyOf(2)
       /\ \A r \in RunIds : runs[r].status = "baseline_created") =>
        LET file == baselinePath(runs[1].name, runs[1].viewport)
        IN /\ ~existsSync(last.before, file)
           /\ existsSync(fs, file)
           /\ readFileSync(fs, file) \in {runs[r].currentBuffer : r \in RunIds}
           /\ \A r \in RunIds : runs[r].currentBuffer \in {runs[q].cap : q \in RunIds}

C17_BothCreated ==
    /\ BothDone
    /\ KeyOf(1) = KeyOf(2)
    /\ \A r \in RunIds : runs[r].status = "baseline_created"
    /\ ~existsSync(last.before, baselinePath(runs[1].name, runs[1].viewport))

----------------------------------------------------------------------------
\* Properties of one capture

\* C21: a snapshot is written to a baseline or current file only after the
\* navigation ended with the network idle for the idle period and the settle
\* delay then passed, in that order: until then the disk is as it was.
C21_SnapshotAfterSettle ==
    /\ runs[1].pc \in {"launch", "goto", "settle", "screenshot"} => fs = last.before
    /\ fs # last.before =>
          /\ runs[1].quietSince + NETWORK_IDLE <= runs[1].idleAt
          /\ runs[1].idleAt + SETTLE_TIME <= runs[1].settledAt
          /\ runs[1].settledAt <= runs[1].shotAt

C21_SnapshotWritten ==
    /\ runs[1].pc = "done"
    /\ runs[1].status \in {"success", "baseline_created"}
    /\ runs[1].requests > 0
    /\ existsSync(fs, baselinePath(runs[1].name, runs[1].viewport))
    /\ fs # last.before

\* C22: when the capture fails in save_baseline, update_baseline or
\* visual_regression (nothing was captured), the call ends in an error that
\* carries a message, and the baseline store is what it was before the call:
\* every stored baseline has its bytes and no baseline was added.
C22_FailedCaptureKeepsStore ==
    (last.op \in CaptureTools /\ last.captured = <<>>) =>
        /\ last.threw
        /\ "message" \in DOMAIN last.ret
        /\ BaselineStore(fs) = BaselineStore(last.before)

C22_CaptureFailedOverBaseline ==
    /\ last.op \in {"update_baseline", "visual_regression"}
    /\ last.captured = <<>>
    /\ last.launched = 1
    /\ last.threw
    /\ existsSync(last.before, KeyFile)

----------------------------------------------------------------------------
\* Properties of the tool router

\* the command of the process was handed to handleTool and is not a
\* registered tool of its server
UnregisteredCall ==
    /\ last.op # "none"
    /\ \/ proc.server = "v5" /\ last.op \notin tools
       \/ proc.server = "v1" /\ last.op \notin toolsV1

\* C23: handleTool with a name that is not a registered tool returns
\* {error: 'Unknown tool: <name>'}, and neither runs a tool function nor
\* launches a browser nor touches the disk.
C23_UnknownToolAnswer ==
    UnregisteredCall =>
        /\ ~last.threw
        /\ "error" \in DOMAIN last.ret
        /\ last.ret.error = "Unknown tool: " \o last.op
        /\ last.launched = 0
        /\ last.captured = <<>>
        /\ fs = last.before

----------------------------------------------------------------------------
\* Properties of the metrics history

\* the history persisted for the name argument a
Persisted(a) ==
    IF existsSync(fs, historyFile(Default(a, "default")))
    THEN readFileSync(fs, historyFile(Default(a, "default")))
    ELSE <<>>

\* C24: after any number of track_metrics calls for a name, the persisted
\* history holds at most 100 entries, they are the entries of the most recent
\* calls in call order, and the last is the entry of the latest call.
C24_HistoryIsLastHundred ==
    \A a \in HistoryNames :
        LET log == last.log[a]
            kept == Min(Len(log), HISTORY_CAP)
        IN /\ Len(Persisted(a)) <= HISTORY_CAP
           /\ Persisted(a) = SubSeq(log, Len(log) - kept + 1, Len(log))
           /\ (last.op = "track_metrics" /\ last.name = a /\ ~last.threw) =>
                 Persisted(a)[Len(Persisted(a))] = last.ret.current

\* a call that recorded the entry after the hundredth
C24_HistoryOverflowed ==
    /\ last.op = "track_metrics"
    /\ ~last.threw
    /\ Len(last.log[last.name]) > HISTORY_CAP + 1
    /\ Len(Persisted(last.name)) = HISTORY_CAP

\* C25: get_history(name, limit) returns the last min(limit, total) entries
\* of the stored history in order, at most limit of them, for every limit
\* from 0 up, and total is the length of the whole stored history.
C25_HistoryLastLimit ==
    (last.op = "get_history" /\ "history" \in DOMAIN last.ret) =>
        LET stored == Persisted(last.name)
            limit  == Default(last.limit, DEFAULT_LIMIT)
            count  == Min(limit, Len(stored))
        IN /\ last.ret.total = Len(stored)
           /\ Len(last.ret.history) <= limit
           /\ last.ret.history = SubSeq(stored, Len(stored) - count + 1, Len(stored))

----------------------------------------------------------------------------
\* Properties of watch mode

\* C26: at most one pass runs at a time: a pass is started only when the
\* pass before it has finished, and a pass started by a change event only
\* when at least interval has passed since then.
C26_OnePassAtATime ==
    \A i \in 1..Len(runs) : i > 1 =>
        /\ runs[i - 1].finishedAt # Unfinished
        /\ runs[i - 1].finishedAt <= runs[i].startedAt
        /\ runs[i].startedAt - runs[i - 1].finishedAt >= last.interval

----------------------------------------------------------------------------
\* Properties of a recorded journey

\* C27: record_journey returns one recorded entry for each step of the
\* journey, in step order; a step that throws is recorded with status
\* 'error' and the steps after it are still run; and every entry has a
\* status, whatever the action and whether or not the selector matches.
C27_OneEntryPerStepWithStatus ==
    (last.op = "record_journey" /\ ~last.threw) =>
        /\ Len(last.ret.steps) = Len(last.journey)
        /\ \A i \in 1..Len(last.ret.steps) :
              /\ last.ret.steps[i].step = i
              /\ last.ret.steps[i].action = last.journey[i].action
              /\ "status" \in DOMAIN last.ret.steps[i]
              /\ last.journey[i].throws => last.ret.steps[i].status = "error"

----------------------------------------------------------------------------
\* Properties of the paths in a result

\* C28: every path in a visual_regression result, under 'baseline',
\* 'current' or 'diff', is the path of a file that exists when the call
\* returns.
C28_ReturnedPathsExist ==
    RegressionReturned =>
        \A field \in {"baseline", "current", "diff"} \cap DOMAIN last.ret :
            existsSync(fs, last.ret[field])

----------------------------------------------------------------------------
\* Properties of the tools table

\* C29: every tool name a server advertises, a key of its tools table, is
\* dispatched by its handleTool to an implementation: the answer to an
\* advertised name is never 'Unknown tool'.
C29_AdvertisedIsDispatched ==
    (\/ proc.server = "v5" /\ last.op \in tools
     \/ proc.server = "v1" /\ last.op \in toolsV1) =>
        ~("error" \in DOMAIN last.ret /\ last.ret.error = "Unknown tool: " \o last.op)

----------------------------------------------------------------------------
\* Properties of the atom animation

\* C30: whatever the order of clicks and cycle ticks, once every pending
\* 300 ms timer has fired the shells and the nucleus label on the page are
\* those of the element named by the container's data-element, the one
\* activated last, and the active cube faces are exactly the faces of that
\* element.
C30_SettledOnLatestElement ==
    runs = <<>> =>
        /\ last.shells = shellsOf(electronConfigs[last.dataElement])
        /\ last.label = labelOf(electronConfigs[last.dataElement])
        /\ last.opacity = "1"
        /\ last.active = {f \in cubeFaces : f.element = last.dataElement}
        /\ \E f \in last.active : TRUE

\* all timers fired after an activation that came while the timer of
\* another element was pending
C30_SettledAfterOverlap ==
    /\ runs = <<>>
    /\ last.overlapped
    /\ last.events >= 2

====
